---- MODULE Spec2Model ----
(***************************************************************************)
(* Model of fmi.py: loading FMI weather observations and forecasts.        *)
(*                                                                         *)
(* A call of get_observations or get_forecast is a small sequential state  *)
(* machine: argument validation, date-range inference, then one blocking   *)
(* provider query per step.  Datetimes are records of calendar fields, as  *)
(* Python's datetime is; every datetime of the program has second = 0 and  *)
(* microsecond = 0 (lines 137, 285, 296), so a minute is the finest unit.  *)
(* Python's None is the string "None" for str arguments, 0 for hours (both *)
(* are falsy and take the same branches) and NoDate for dates.             *)
(***************************************************************************)
EXTENDS Integers, Sequences, FiniteSets, TLC

None == "None"

NoDate == [kind |-> "none"]

(***************************************************************************)
(* Calendar arithmetic of Python's datetime (proleptic Gregorian).         *)
(***************************************************************************)
IsLeap(y) == (y % 4 = 0) /\ ((y % 100 # 0) \/ (y % 400 = 0))

DaysInMonth(y, m) ==
    IF m = 2 THEN (IF IsLeap(y) THEN 29 ELSE 28)
    ELSE IF m \in {4, 6, 9, 11} THEN 30 ELSE 31

\* number of days before January 1st of year y (date.toordinal)
DaysBeforeYear(y) ==
    (y - 1) * 365 + ((y - 1) \div 4) - ((y - 1) \div 100) + ((y - 1) \div 400)

\* number of days of year y before the first day of month m
DaysBeforeMonth(y, m) ==
    <<0, 31, 59, 90, 120, 151, 181, 212, 243, 273, 304, 334>>[m]
        + (IF m > 2 /\ IsLeap(y) THEN 1 ELSE 0)

ToOrdinal(y, m, d) == DaysBeforeYear(y) + DaysBeforeMonth(y, m) + d

\* date.fromordinal: the year, then the month, whose days contain ordinal n
YearOfOrdinal[n \in Nat] ==
    LET u == (n - 1) \div 365 + 1
    IN  CHOOSE y \in (u - 3) .. u :
            DaysBeforeYear(y) < n /\ n <= DaysBeforeYear(y + 1)

MonthOfDay[y \in Nat, r \in Nat] ==
    CHOOSE k \in 1 .. 12 :
        DaysBeforeMonth(y, k) < r /\ r <= DaysBeforeMonth(y, k) + DaysInMonth(y, k)

FromYearMonth[y \in Nat, m \in Nat, r \in Nat] ==
    [year |-> y, month |-> m, day |-> r - DaysBeforeMonth(y, m)]

FromYearDay[y \in Nat, r \in Nat] == FromYearMonth[y, MonthOfDay[y, r], r]

FromYear[y \in Nat, n \in Nat] == FromYearDay[y, n - DaysBeforeYear(y)]

FromOrdinal[n \in Nat] == FromYear[YearOfOrdinal[n], n]

\* datetime(year, month, day, hour, minute)
DateTime(y, m, d, h, mi) ==
    [year |-> y, month |-> m, day |-> d, hour |-> h, minute |-> mi]

\* the minute a datetime names, counted as date.toordinal counts days
Minutes(dt) == ToOrdinal(dt.year, dt.month, dt.day) * 1440 + dt.hour * 60 + dt.minute

CalendarDates == [year : Nat, month : Nat, day : Nat]

\* the date d at minute t of the day
AtMinute[d \in CalendarDates, t \in Nat] ==
    DateTime(d.year, d.month, d.day, t \div 60, t % 60)

FromMinutes[n \in Nat] == AtMinute[FromOrdinal[n \div 1440], n % 1440]

\* datetime + timedelta, the timedelta given in minutes
Plus(dt, mins) == FromMinutes[Minutes(dt) + mins]

Hours(h) == 60 * h

Days(d) == 1440 * d

\* (a - b).total_seconds()
TotalSeconds(a, b) == 60 * (Minutes(a) - Minutes(b))

\* datetime comparison a < b and min(a, b)
Before(a, b) == Minutes(a) < Minutes(b)

MinDt(a, b) == IF Before(b, a) THEN b ELSE a

\* dt.replace(day=d)
ReplaceDay(dt, d) == [dt EXCEPT !.day = d]

\* datetime.combine(d, datetime.min.time()): midnight of d's date
CombineMin(d) == DateTime(d.year, d.month, d.day, 0, 0)

\* datetime.combine(d, datetime.max.time()).replace(microsecond=0, second=0)
CombineMaxTrunc(d) == DateTime(d.year, d.month, d.day, 23, 59)

\* dt.isoformat(): the fields of "YYYY-MM-DDTHH:MM:SS"
Isoformat(dt) == <<dt.year, dt.month, dt.day, dt.hour, dt.minute, 0>>

\* datetime.strptime(s, "%Y-%m-%d") of a well-formed "YYYY-MM-DD"
Strptime(s) == DateTime(s[1], s[2], s[3], 0, 0)

(***************************************************************************)
(* Input validation and parameter translation.                             *)
(***************************************************************************)
\* Python truthiness of a str-or-None argument
Truthy(s) == s # None /\ s # ""

Models == {"harmonie", "hirlam"}

\* _fmi_inputchecks without the check of line 174
_fmi_inputchecks_no_location(place, fmisid, parameter, model) ==
    IF ~Truthy(parameter) THEN "ValueError"
    ELSE IF Truthy(model) /\ model \notin Models THEN "ValueError"
    ELSE "ok"

\* _fmi_inputchecks with line 174 asking for exactly one of place and fmisid
_fmi_inputchecks_exactly_one(place, fmisid, parameter, model) ==
    IF ~Truthy(parameter) THEN "ValueError"
    ELSE IF Truthy(place) = Truthy(fmisid) THEN "ValueError"
    ELSE IF Truthy(model) /\ model \notin Models THEN "ValueError"
    ELSE "ok"

\* the error _fmi_inputchecks raises, or "ok"
_fmi_inputchecks(place, fmisid, parameter, model) ==
    IF ~Truthy(parameter) THEN "ValueError"
    ELSE IF ~Truthy(place) /\ ~Truthy(fmisid) THEN "ValueError"
    ELSE IF Truthy(model) /\ model \notin Models THEN "ValueError"
    ELSE "ok"

ObsLegitParams ==
    {"temperature", "temperature_avg", "temperature_max", "temperature_min",
     "humidity", "relative_humidity", "wind_speed_avg", "wind_speed_max",
     "wind_speed_min", "wind_direction", "rain_accumulated",
     "rain_intensity_max", "air_pressure"}

ObsCode(p) ==
    CASE p \in {"temperature", "temperature_avg"} -> "TA_PT1H_AVG"
      [] p = "temperature_max" -> "TA_PT1H_MAX"
      [] p = "temperature_min" -> "TA_PT1H_MIN"
      [] p \in {"humidity", "relative_humidity"} -> "RH_PT1H_AVG"
      [] p \in {"wind_speed", "wind_speed_avg"} -> "WS_PT1H_AVG"
      [] p = "wind_speed_max" -> "WS_PT1H_MAX"
      [] p = "wind_speed_min" -> "WS_PT1H_MIN"
      [] p = "wind_direction" -> "WD_PT1H_AVG"
      [] p = "rain_accumulated" -> "PRA_PT1H_ACC"
      [] p = "rain_intensity_max" -> "PRI_PT1H_MAX"
      [] p = "air_pressure" -> "PA_PT1H_AVG"

ForecastLegitParams ==
    {"air_pressure", "temperature", "humidity", "wind_direction", "wind_speed"}

ForecastCode(p) ==
    CASE p = "air_pressure" -> "Pressure"
      [] p = "temperature" -> "Temperature"
      [] p = "humidity" -> "Humidity"
      [] p = "wind_direction" -> "WindDirection"
      [] p = "wind_speed" -> "WindSpeedMS"

\* the provider code of wanted_param, or "ValueError" when it is not legit
_get_param_name(wanted_param, query_type) ==
    IF query_type = "observation"
    THEN (IF wanted_param \notin ObsLegitParams THEN "ValueError"
          ELSE ObsCode(wanted_param))
    ELSE (IF wanted_param \notin ForecastLegitParams THEN "ValueError"
          ELSE ForecastCode(wanted_param))

(***************************************************************************)
(* Date-range inference.                                                   *)
(***************************************************************************)
EpochYear == 2018

\* lines 277-280 and 281-285: a str is parsed, then combined with a time
StartOfDay(d) == CombineMin(IF d.kind = "str" THEN Strptime(d.text) ELSE d)

EndOfDay(d) == CombineMaxTrunc(IF d.kind = "str" THEN Strptime(d.text) ELSE d)

\* [raised, start, end] for the arguments and the clock value now
_get_datetime_limits(start_date, end_date, hours, now) ==
    LET sd == start_date # NoDate
        ed == end_date # NoDate
        h  == hours # 0
        start0 == IF sd THEN StartOfDay(start_date) ELSE now
        end0   == IF ed THEN EndOfDay(end_date) ELSE now
        start == IF ~sd /\ ~ed THEN Plus(now, - Hours(hours))
                 ELSE IF ed /\ ~sd
                      THEN (IF h THEN Plus(end0, - Hours(hours))
                            ELSE DateTime(EpochYear, 1, 1, 0, 0))
                      ELSE start0
        end   == IF ~sd /\ ~ed THEN now
                 ELSE IF sd /\ ~ed
                      THEN (IF h THEN Plus(start0, Hours(hours)) ELSE now)
                      ELSE end0
    IN  IF ~(h \/ sd \/ ed) THEN [raised |-> TRUE, start |-> now, end |-> now]
        ELSE IF h /\ sd /\ ed THEN [raised |-> TRUE, start |-> now, end |-> now]
        ELSE [raised |-> FALSE, start |-> start, end |-> MinDt(now, end)]

(***************************************************************************)
(* Chunking of get_observations.                                           *)
(***************************************************************************)
MaxWindowHours == 744

SecondsPerHour == 3600

\* too_long with >= for > on line 69
TooLong_AtLeast(start, end) ==
    (TotalSeconds(end, start) \div SecondsPerHour) >= MaxWindowHours

\* lines 68-69: hours = divmod(total_seconds, 3600)[0]; too_long = hours > 744
TooLong(start, end) == (TotalSeconds(end, start) \div SecondsPerHour) > MaxWindowHours

\* _month_last_h adding three days on line 79
_month_last_h_3days(dt) ==
    LET dt1 == ReplaceDay(dt, 28)
        dt2 == Plus(dt1, Days(3))
        dt3 == ReplaceDay(dt2, 1)
        dt4 == CombineMin(dt3)
    IN  Plus(dt4, - Hours(1))

\* _month_last_h without line 79
_month_last_h_no_advance(dt) ==
    LET dt1 == ReplaceDay(dt, 28)
        dt3 == ReplaceDay(dt1, 1)
        dt4 == CombineMin(dt3)
    IN  Plus(dt4, - Hours(1))

\* lines 77-83: last hour of the month of dt
_month_last_h(dt) ==
    LET dt1 == ReplaceDay(dt, 28)
        dt2 == Plus(dt1, Days(4))
        dt3 == ReplaceDay(dt2, 1)
        dt4 == CombineMin(dt3)
    IN  Plus(dt4, - Hours(1))

\* line 104 without the added hour
NextStart_NoStep(block_end) == block_end

\* line 104: the start of the next chunk
NextStart(block_end) == Plus(block_end, Hours(1))

(***************************************************************************)
(* The calls.                                                              *)
(***************************************************************************)
VARIABLES
    args,         \* the arguments of the call, and which entry point is called
    now,          \* what datetime.now() returns, truncated to the minute
    pc,           \* "call", "ranged", "single", "loop", "forecast", "done", "error"
    queryid,      \* the stored query id
    params,       \* the dict of query parameters
    start,        \* local start of get_observations
    end,          \* local end of get_observations
    end_reached,  \* local end_reached of the chunk loop
    df,           \* the table accumulated by the chunk loop
    queries,      \* the queries sent to the provider so far, in order
    responses,    \* the outcome of each of them: "ok" or "fail"
    returned,     \* whether the call has returned a table
    result,       \* the table returned
    error         \* the exception raised out of the call, or "none"

vars == <<args, now, pc, queryid, params, start, end, end_reached, df,
          queries, responses, returned, result, error>>

\* the longest run of queries the chunk loop is followed for
MaxQueries == 40

\* how many start days the hours-only calls of InitSweep go back over
NumDays == 420

DateObj(y, m, d) == [kind |-> "date", year |-> y, month |-> m, day |-> d]

DateStr(y, m, d) == [kind |-> "str", text |-> <<y, m, d>>]

Places == {None, "Oulu"}

Fmisids == {None, "101799"}

ParameterNames == {None, "temperature", "wind_speed", "snow_depth"}

ModelNames == {None, "harmonie", "hirlam", "ecmwf"}

DateInputs ==
    {NoDate, DateStr(2019, 12, 1), DateObj(2020, 1, 1), DateStr(2020, 1, 31),
     DateObj(2020, 2, 15), DateStr(2020, 3, 1), DateObj(2020, 5, 1)}

HourInputs == {0, 1, 744, 745, 1000}

NowInputs == {DateTime(2020, 2, 1, 0, 30), DateTime(2020, 3, 31, 23, 0)}

SweepNows == {DateTime(2021, 4, 2, 0, 30), DateTime(2021, 4, 2, 10, 37)}

SweepHours == {MaxWindowHours + 1 + 24 * k : k \in 0 .. NumDays}

Fresh ==
    /\ pc = "call"
    /\ queryid = None
    /\ params = << >>
    /\ start = now
    /\ end = now
    /\ end_reached = FALSE
    /\ df = << >>
    /\ queries = << >>
    /\ responses = << >>
    /\ returned = FALSE
    /\ result = << >>
    /\ error = "none"

\* get_observations with every kind of argument
InitObservations ==
    /\ now \in NowInputs
    /\ args \in [op : {"observations"}, place : Places, fmisid : Fmisids,
                 parameter : ParameterNames, model : {None},
                 hours : HourInputs, start_date : DateInputs, end_date : DateInputs]
    /\ Fresh

\* get_forecast with every kind of argument
InitForecast ==
    /\ now \in NowInputs
    /\ args \in [op : {"forecast"}, place : Places, fmisid : Fmisids,
                 parameter : ParameterNames, model : ModelNames,
                 hours : {0, 24}, start_date : {NoDate}, end_date : {NoDate}]
    /\ Fresh

\* get_observations(place, parameter, hours=h): a start on each of NumDays days
InitSweep ==
    /\ now \in SweepNows
    /\ args \in [op : {"observations"}, place : {"Oulu"}, fmisid : {None},
                 parameter : {"temperature"}, model : {None},
                 hours : SweepHours, start_date : {NoDate}, end_date : {NoDate}]
    /\ Fresh

Init == InitObservations \/ InitForecast \/ InitSweep

\* params[k] = v on a dict
SetItem(d, k, v) == [x \in (DOMAIN d) \cup {k} |-> IF x = k THEN v ELSE d[x]]

\* line 52 and line 134
LocationParams(place, fmisid) ==
    IF Truthy(place) THEN [place |-> place] ELSE [fmisid |-> fmisid]

\* lines 58-59 of _load_obs
LoadObsParams(p, s, e) ==
    SetItem(SetItem(p, "starttime", Isoformat(s)), "endtime", Isoformat(e))

\* lines 60-61: the table _tree_to_df extracts from the provider's answer to p
ProviderTable(p) == << p >>

\* the loop catching the exception and returning the chunks loaded so far
LoadFailed_Partial(partial) ==
    [pc |-> "done", error |-> "none", returned |-> TRUE, result |-> partial]

\* an exception out of _do_query or _tree_to_df leaves the call (no handler);
\* partial, the chunks loaded so far, is dropped with the frame
LoadFailed(partial) ==
    [pc |-> "error", error |-> "QueryError", returned |-> FALSE, result |-> << >>]

\* lines 50-64
GetObservationsBegin ==
    /\ pc = "call"
    /\ args.op = "observations"
    /\ LET chk  == _fmi_inputchecks(args.place, args.fmisid, args.parameter, None)
           name == _get_param_name(args.parameter, "observation")
           lim  == _get_datetime_limits(args.start_date, args.end_date, args.hours, now)
           ok   == chk = "ok" /\ name # "ValueError" /\ ~lim.raised
       IN  /\ pc' = IF ok THEN "ranged" ELSE "error"
           /\ error' = IF ok THEN "none" ELSE "ValueError"
           /\ params' = IF ok
                        THEN SetItem(LocationParams(args.place, args.fmisid),
                                     "parameters", name)
                        ELSE params
           /\ queryid' = IF ok THEN "fmi::observations::weather::hourly::simple"
                         ELSE queryid
           /\ start' = IF ok THEN lim.start ELSE start
           /\ end' = IF ok THEN lim.end ELSE end
    /\ UNCHANGED <<args, now, end_reached, df, queries, responses, returned, result>>

\* lines 66-71 and 85-87
CheckSpan ==
    /\ pc = "ranged"
    /\ pc' = IF TooLong(start, end) THEN "loop" ELSE "single"
    /\ df' = << >>
    /\ end_reached' = FALSE
    /\ UNCHANGED <<args, now, queryid, params, start, end, queries, responses,
                   returned, result, error>>

\* line 72: return _load_obs(start, end)
LoadSingle ==
    /\ pc = "single"
    /\ \E ok \in BOOLEAN :
        LET p == LoadObsParams(params, start, end)
            f == LoadFailed(<< >>)
        IN  /\ params' = p
            /\ queries' = Append(queries, [queryid |-> queryid, params |-> p])
            /\ responses' = Append(responses, IF ok THEN "ok" ELSE "fail")
            /\ pc' = IF ok THEN "done" ELSE f.pc
            /\ error' = IF ok THEN "none" ELSE f.error
            /\ returned' = IF ok THEN TRUE ELSE f.returned
            /\ result' = IF ok THEN ProviderTable(p) ELSE f.result
    /\ UNCHANGED <<args, now, queryid, start, end, end_reached, df>>

\* lines 89-106: one iteration of the chunk loop
LoadChunk ==
    /\ pc = "loop"
    /\ Len(queries) < MaxQueries
    /\ \E ok \in BOOLEAN, last_hour \in {_month_last_h(start)} :
        \E reached \in {Before(end, last_hour)} :
        \E block_end \in {IF reached THEN end ELSE last_hour} :
        \E p \in {LoadObsParams(params, start, block_end)} :
        \E f \in {LoadFailed(df)} :
            /\ params' = p
            /\ queries' = Append(queries, [queryid |-> queryid, params |-> p])
            /\ responses' = Append(responses, IF ok THEN "ok" ELSE "fail")
            /\ end_reached' = reached
            /\ df' = IF ok THEN df \o ProviderTable(p) ELSE df
            /\ start' = IF ok THEN NextStart(block_end) ELSE start
            /\ pc' = IF ~ok THEN f.pc ELSE IF reached THEN "done" ELSE "loop"
            /\ error' = IF ok THEN "none" ELSE f.error
            /\ returned' = IF ~ok THEN f.returned ELSE reached
            /\ result' = IF ~ok THEN f.result
                         ELSE IF reached THEN df \o ProviderTable(p) ELSE << >>
    /\ UNCHANGED <<args, now, queryid, end>>

HarmonieHours == 66

HirlamHours == 54

\* lines 133-153
GetForecastBegin ==
    /\ pc = "call"
    /\ args.op = "forecast"
    /\ LET chk  == _fmi_inputchecks(args.place, args.fmisid, args.parameter, args.model)
           name == _get_param_name(args.parameter, "forecast")
           ok   == chk = "ok" /\ name # "ValueError"
           h    == IF args.hours # 0 THEN args.hours
                   ELSE IF args.model = "harmonie" THEN HarmonieHours ELSE HirlamHours
       IN  /\ pc' = IF ok THEN "forecast" ELSE "error"
           /\ error' = IF ok THEN "none" ELSE "ValueError"
           /\ params' = IF ok
                        THEN SetItem(SetItem(LocationParams(args.place, args.fmisid),
                                             "parameters", name),
                                     "endtime", Isoformat(Plus(now, Hours(h))))
                        ELSE params
           /\ queryid' = IF ~ok THEN queryid
                         ELSE IF args.model = "harmonie"
                              THEN "fmi::forecast::harmonie::hybrid::point::simple"
                              ELSE "fmi::forecast::hirlam::surface::point::simple"
    /\ UNCHANGED <<args, now, start, end, end_reached, df, queries, responses,
                   returned, result>>

\* lines 155-158
ForecastQuery ==
    /\ pc = "forecast"
    /\ \E ok \in BOOLEAN :
        LET f == LoadFailed(<< >>)
        IN  /\ queries' = Append(queries, [queryid |-> queryid, params |-> params])
            /\ responses' = Append(responses, IF ok THEN "ok" ELSE "fail")
            /\ pc' = IF ok THEN "done" ELSE f.pc
            /\ error' = IF ok THEN "none" ELSE f.error
            /\ returned' = IF ok THEN TRUE ELSE f.returned
            /\ result' = IF ok THEN ProviderTable(params) ELSE f.result
    /\ UNCHANGED <<args, now, queryid, params, start, end, end_reached, df>>

Next ==
    \/ GetObservationsBegin
    \/ CheckSpan
    \/ LoadSingle
    \/ LoadChunk
    \/ GetForecastBegin
    \/ ForecastQuery

Spec == Init /\ [][Next]_vars

\* a call that is runnable keeps running: the program is sequential and every
\* query returns or raises
FairSpec == Spec /\ WF_vars(Next)

TypeOK ==
    /\ pc \in {"call", "ranged", "single", "loop", "forecast", "done", "error"}
    /\ Len(queries) = Len(responses)
    /\ Len(queries) < MaxQueries

(***************************************************************************)
(* Vocabulary of the properties.                                           *)
(***************************************************************************)
\* the instant an isoformat text names, in minutes
ParseIso(s) == Minutes(DateTime(s[1], s[2], s[3], s[4], s[5]))

QStart(i) == ParseIso(queries[i].params.starttime)

QEnd(i) == ParseIso(queries[i].params.endtime)

IsObs == args.op = "observations"

\* the range _get_datetime_limits infers for the arguments of the call
Limits == _get_datetime_limits(args.start_date, args.end_date, args.hours, now)

SpanMinutes == Minutes(Limits.end) - Minutes(Limits.start)

\* how many of hours, start_date, end_date are supplied
TimeArgs ==
    (IF args.hours # 0 THEN 1 ELSE 0) + (IF args.start_date # NoDate THEN 1 ELSE 0)
        + (IF args.end_date # NoDate THEN 1 ELSE 0)

MissingParameter == args.parameter = None

MissingLocation == args.place = None /\ args.fmisid = None

BothLocations == args.place # None /\ args.fmisid # None

UnlistedParameter ==
    /\ args.parameter # None
    /\ args.parameter \notin (IF IsObs THEN ObsLegitParams ELSE ForecastLegitParams)

UnknownModel == ~IsObs /\ args.model \notin {None, "harmonie", "hirlam"}

BadTimeArgs == IsObs /\ TimeArgs \in {0, 3}

InvalidArgument ==
    MissingParameter \/ MissingLocation \/ UnlistedParameter \/ UnknownModel \/ BadTimeArgs

\* a get_observations call that got past validation and has to chunk its range
Chunked == IsObs /\ ~InvalidArgument /\ SpanMinutes >= 60 * (MaxWindowHours + 1)

\* the number of whole-hour instants t with a <= t <= b (minutes)
WholeHours(a, b) == IF b < a THEN 0 ELSE (b \div 60) - ((a + 59) \div 60) + 1

RECURSIVE HoursCovered(_)
HoursCovered(n) == IF n = 0 THEN 0 ELSE HoursCovered(n - 1) + WholeHours(QStart(n), QEnd(n))

\* 23:00 on the last calendar day of the month and year an isoformat text lies in
LastHourOfMonthIso(s) == <<s[1], s[2], DaysInMonth(s[1], s[2]), 23, 0, 0>>

\* query i is a chunk that is not the final one of its loop
NonFinal(i) == i < Len(queries) \/ pc = "loop"

(***************************************************************************)
(* Properties.                                                             *)
(***************************************************************************)
\* C1: whenever _get_datetime_limits accepts its arguments, the pair it returns
\* satisfies start <= end <= now.
C1_RangeOrdered ==
    pc = "ranged" => (~Before(end, start) /\ ~Before(now, end))

\* C2: every query get_observations sends covers a window endtime - starttime
\* of at most 744 hours, sent as a single query or as a chunk.
C2_WindowAtMost744 ==
    IsObs => \A i \in 1 .. Len(queries) : QEnd(i) - QStart(i) <= 60 * MaxWindowHours

\* C3: in a chunked call the windows are issued in increasing time order, the
\* first starts at the requested start, each next one starts exactly one hour
\* after the previous one's end, the final one ends at the requested end, every
\* whole-hour instant of the requested range lies in exactly one window (the
\* windows are disjoint, lie inside the range, and together hold as many whole
\* hours as the range), and the tables are concatenated in chunk order.
C3_ChunksTile ==
    Chunked =>
        /\ Len(queries) >= 1 => QStart(1) = Minutes(Limits.start)
        /\ \A i \in 2 .. Len(queries) :
              /\ QStart(i) = QEnd(i - 1) + 60
              /\ QStart(i) > QStart(i - 1)
              /\ \A j \in 1 .. (i - 1) : QEnd(j) < QStart(i)
        /\ \A i \in 1 .. Len(queries) :
              QStart(i) >= Minutes(Limits.start) /\ QEnd(i) <= Minutes(Limits.end)
        /\ pc = "loop" => df = [i \in 1 .. Len(queries) |-> queries[i].params]
        /\ pc = "done" =>
              /\ QEnd(Len(queries)) = Minutes(Limits.end)
              /\ HoursCovered(Len(queries))
                    = WholeHours(Minutes(Limits.start), Minutes(Limits.end))
              /\ returned
              /\ result = [i \in 1 .. Len(queries) |-> queries[i].params]

\* C3 witness: a chunked call has returned the concatenation of three or more chunks
C3_Witness ==
    Chunked /\ pc = "done" /\ Len(queries) >= 3 /\ Len(result) = Len(queries)

\* C4: _month_last_h(dt) is 23:00 on the last calendar day of the month and
\* year containing dt (December stays in its year, February follows the leap
\* rule), and every non-final chunk ends at that instant for its chunk start.
C4_MonthLastHour ==
    /\ pc \in {"ranged", "loop"} =>
          Isoformat(_month_last_h(start)) = LastHourOfMonthIso(Isoformat(start))
    /\ Chunked =>
          \A i \in 1 .. Len(queries) :
              NonFinal(i) =>
                  queries[i].params.endtime
                      = LastHourOfMonthIso(queries[i].params.starttime)

\* C4 witness: one call has sent a non-final chunk starting in December 2019
\* and one starting in the leap February of 2020
C4_Witness ==
    /\ Chunked
    /\ \E i, j \in 1 .. Len(queries) :
          /\ NonFinal(i) /\ NonFinal(j)
          /\ queries[i].params.starttime[1] = 2019
          /\ queries[i].params.starttime[2] = 12
          /\ queries[i].params.endtime = <<2019, 12, 31, 23, 0, 0>>
          /\ queries[j].params.starttime[2] = 2
          /\ queries[j].params.endtime = <<2020, 2, 29, 23, 0, 0>>

\* C5: each InvalidArgument condition makes the call raise the error with zero
\* queries sent during the call; an InvalidArgument error is never raised once
\* a query has been sent.
C5_InvalidBeforeQuery ==
    /\ (InvalidArgument /\ pc # "call") =>
          (pc = "error" /\ error = "ValueError" /\ queries = << >> /\ ~returned)
    /\ error = "ValueError" => queries = << >>

\* C5 witness: a forecast call whose only fault is its model name has raised
C5_Witness ==
    /\ pc = "error"
    /\ error = "ValueError"
    /\ UnknownModel
    /\ ~(MissingParameter \/ MissingLocation \/ UnlistedParameter)

\* C6 as claimed: a call is accepted only when exactly one of place and fmisid
\* is supplied; with both, as with neither, it fails with InvalidArgument.
C6_ExactlyOneLocation ==
    (pc # "call" /\ (BothLocations \/ MissingLocation)) => error = "ValueError"

\* C6 as amended: a call supplying neither place nor fmisid fails with
\* InvalidArgument; a call supplying both is not rejected for it: with its other
\* arguments valid it is accepted and queried by place, the fmisid left out.
C6_AtLeastOneLocation ==
    /\ (pc # "call" /\ MissingLocation) => (error = "ValueError" /\ queries = << >>)
    /\ (pc # "call" /\ BothLocations /\ ~InvalidArgument) =>
          /\ error # "ValueError"
          /\ DOMAIN params \cap {"place", "fmisid"} = {"place"}
          /\ params.place = args.place

\* C6 witness: a call supplying both place and fmisid has returned a table
C6_Witness ==
    /\ BothLocations
    /\ pc = "done"
    /\ returned
    /\ "place" \in DOMAIN queries[1].params

\* C7: when the inferred range spans at most 744 hours, exactly one query is
\* sent, with starttime = start and endtime = end, and the table extracted from
\* its answer is what the call returns.
C7_SingleQuery ==
    (IsObs /\ ~InvalidArgument /\ SpanMinutes <= 60 * MaxWindowHours) =>
        /\ Len(queries) <= 1
        /\ pc \in {"done", "error"} =>
              /\ Len(queries) = 1
              /\ queries[1].params.starttime = Isoformat(Limits.start)
              /\ queries[1].params.endtime = Isoformat(Limits.end)
        /\ pc = "done" => (returned /\ result = ProviderTable(queries[1].params))

\* C7 witness: a range of exactly 744 hours was answered by one query
C7_Witness ==
    /\ IsObs
    /\ ~InvalidArgument
    /\ SpanMinutes = 60 * MaxWindowHours
    /\ pc = "done"
    /\ Len(queries) = 1

\* C8: in a chunked call no chunk is queried twice; when the query or
\* extraction of a chunk fails the error leaves the call, no later chunk is
\* queried and no table is returned, the earlier chunks' rows included.
C8_FailurePropagates ==
    Chunked =>
        /\ \A i, j \in 1 .. Len(queries) :
              i # j => queries[i].params # queries[j].params
        /\ \A i \in 1 .. (Len(responses) - 1) : responses[i] = "ok"
        /\ (Len(responses) >= 1 /\ responses[Len(responses)] = "fail") =>
              (pc = "error" /\ error = "QueryError" /\ ~returned /\ result = << >>)
        /\ pc = "error" => ~returned

\* C8 witness: a chunk failed after two chunks had been loaded
C8_Witness ==
    /\ Chunked
    /\ Len(responses) >= 3
    /\ responses[Len(responses)] = "fail"
    /\ Len(df) = Len(responses) - 1

\* C9: every query of get_observations has starttime <= endtime, stated here
\* for the calls whose inferred range itself has start <= end and starts on a
\* whole hour.
C9_StartBeforeEnd ==
    (IsObs /\ SpanMinutes >= 0 /\ Limits.start.minute = 0) =>
        \A i \in 1 .. Len(queries) : QStart(i) <= QEnd(i)

\* the chunk start has moved on to the first hour of the following month
AdvancedAMonth ==
    /\ Minutes(start') > Minutes(start)
    /\ start'.day = 1 /\ start'.hour = 0 /\ start'.minute = 0
    /\ 12 * start'.year + start'.month = 12 * start.year + start.month + 1

\* C10: the chunk loop terminates: each iteration that stays in the loop moves
\* the chunk start to the first hour of the following month, it stays in the
\* loop only while the requested end is not earlier than the month's last
\* hour, and every call that entered the loop leaves it.
C10_LoopTerminates ==
    /\ [][(pc = "loop" /\ pc' = "loop") =>
            (AdvancedAMonth /\ ~Before(end, _month_last_h(start)) /\ ~end_reached')]_vars
    /\ [][(pc = "loop" /\ pc' = "done") =>
            (Before(end, _month_last_h(start)) /\ end_reached')]_vars
    /\ (pc = "loop") ~> (pc \in {"done", "error"})

\* C10 witness: a loop of four or more chunks has been left with end_reached set
C10_Witness ==
    Chunked /\ pc = "done" /\ end_reached /\ Len(queries) >= 4

====
